---- MODULE Spec2Model ----
(***************************************************************************)
(* Model of grep_search (aden_tools file_system_toolkits/grep_search).     *)
(*                                                                         *)
(* One request is one behaviour: the pattern is compiled, the path is      *)
(* resolved, the target is enumerated (single file, os.listdir, os.walk)   *)
(* and each candidate file is scanned line by line into `matches`.         *)
(*                                                                         *)
(* Representation.  A file or directory name is the sequence of its        *)
(* dot-separated parts: "a.txt" is <<"a","txt">>, ".git" is <<"","git">>,  *)
(* ".." is <<"","","">>.  A path is the sequence of its names.  A line of  *)
(* text is a sequence of tokens; a pattern is a sequence of tokens, where  *)
(* "(" and ")" are the grouping metacharacters and every other token is a  *)
(* literal.                                                                *)
(***************************************************************************)
EXTENDS Integers, Sequences, FiniteSets, TLC

VARIABLES
    path,           \* request: logical path, relative to the session root
    pattern,        \* request: the pattern
    recursive,      \* request: the recursive flag
    fs,             \* the file tree: absolute path -> node
    pc,             \* position in grep_search
    regex,          \* the compiled pattern (its literals), or <<>> before compile
    secure_path,    \* get_secure_path's result
    matches,        \* the accumulated match records
    full_path,      \* process_file's argument
    line_i,         \* number i of the next line enumerate(f, 1) yields
    stack,          \* os.walk: directories still to visit
    root,           \* os.walk: the directory yielded last
    dirs,           \* os.walk: its sub-directory names (the list the loop prunes)
    filenames,      \* os.walk: its file names
    items,          \* os.listdir's result
    idx,            \* position of the file loop in filenames / items
    result,         \* the returned dict, [pending |-> TRUE] until the return
    io,             \* log of filesystem calls: isfile, listdir, scandir, open
    resolver_calls  \* number of calls of get_secure_path

vars == <<path, pattern, recursive, fs, pc, regex, secure_path, matches, full_path,
          line_i, stack, root, dirs, filenames, items, idx, result, io, resolver_calls>>

(***************************************************************************)
(* Bounds of the model.                                                    *)
(***************************************************************************)
\* small files have 0..MaxSmallLines lines
MaxSmallLines == 2
\* the large file has MAX_MATCHES - CapMargin .. MAX_MATCHES + CapMargin lines
CapMargin == 1

(***************************************************************************)
(* Program constants.                                                      *)
(***************************************************************************)
MAX_MATCHES == 1000

\* the number of bytes a text file opened by open() decodes at a time
CHUNK_SIZE == 8192

IGNORED_DIRS ==
    { <<"node_modules">>, <<"", "git">>, <<"__pycache__">>, <<"", "venv">>, <<"venv">>,
      <<"dist">>, <<"build">>, <<"", "pytest_cache">>, <<"", "mypy_cache">> }

BINARY_EXTENSIONS ==
    { ".pyc", ".pyo", ".pyd", ".class", ".o", ".so", ".dll", ".exe", ".dylib",
      ".db", ".sqlite", ".sqlite3",
      ".zip", ".tar", ".gz", ".7z", ".rar", ".whl",
      ".png", ".jpg", ".jpeg", ".gif", ".webp", ".ico", ".svg",
      ".mp3", ".mp4", ".mov", ".avi",
      ".pdf", ".docx", ".xlsx",
      ".ttf", ".otf", ".woff", ".woff2" }

\* os.path.join(WORKSPACES_DIR, workspace_id, agent_id, session_id)
session_root == <<<<"workspaces">>, <<"ws">>, <<"ag">>, <<"sess">>>>

PARDIR == <<"", "", "">>
CURDIR == <<"", "">>

(***************************************************************************)
(* Pure helpers.                                                           *)
(***************************************************************************)
Last(s) == s[Len(s)]

Front(s) == SubSeq(s, 1, Len(s) - 1)

Reverse(s) == [i \in 1..Len(s) |-> s[Len(s) + 1 - i]]

\* str.lower() on the extensions of the model's file names
Lower(s) ==
    CASE s = ".PNG" -> ".png"
      [] s = ".Png" -> ".png"
      [] s = ".TXT" -> ".txt"
      [] OTHER -> s

\* os.path.splitext(p)[1]: the suffix from the last dot of the last name, empty
\* when the name has no dot or only leading dots
SplitExt(p) ==
    LET name == Last(p)
    IN  IF Len(name) >= 2 /\ (\E k \in 1..(Len(name) - 1) : name[k] # "")
        THEN "." \o Last(name)
        ELSE ""

\* the extension test without lower()
IsBinaryExtCaseSensitive(p) == SplitExt(p) \in BINARY_EXTENSIONS

\* ext.lower() in BINARY_EXTENSIONS
IsBinaryExt(p) == Lower(SplitExt(p)) \in BINARY_EXTENSIONS

\* length of the common prefix of two paths
RECURSIVE CommonLen(_, _)
CommonLen(a, b) ==
    IF a = <<>> \/ b = <<>> \/ Head(a) # Head(b) THEN 0
    ELSE 1 + CommonLen(Tail(a), Tail(b))

\* os.path.relpath(p, start)
RelPath(p, start) ==
    LET i == CommonLen(start, p)
        rel == [k \in 1..(Len(start) - i) |-> PARDIR] \o SubSeq(p, i + 1, Len(p))
    IN  IF rel = <<>> THEN <<CURDIR>> ELSE rel

\* the display path taken relative to the search target
DisplayPathFromTarget(p) == RelPath(p, secure_path)

\* display_path of process_file.  relpath raises ValueError only for paths on
\* different drives; a path and the session root never are, so the fallback to
\* the absolute path is not taken.
DisplayPath(p) == RelPath(p, session_root)

\* re.compile: depth of open groups after the pattern, -1 once a ")" closes nothing
RECURSIVE GroupDepth(_, _)
GroupDepth(pat, d) ==
    IF pat = <<>> THEN d
    ELSE IF Head(pat) = "(" THEN GroupDepth(Tail(pat), d + 1)
    ELSE IF Head(pat) = ")" THEN (IF d = 0 THEN -1 ELSE GroupDepth(Tail(pat), d - 1))
    ELSE GroupDepth(Tail(pat), d)

\* a compile step that accepts every pattern
CompileNeverFails(pat) == FALSE

\* re.compile(pattern) raises re.error
CompileFails(pat) == GroupDepth(pat, 0) # 0

\* e.msg of the re.error
CompileMsg(pat) ==
    IF GroupDepth(pat, 0) < 0 THEN "unbalanced parenthesis"
    ELSE "missing ), unterminated subpattern"

\* the compiled pattern: the literals it matches in sequence
Compile(pat) == SelectSeq(pat, LAMBDA t : t \notin {"(", ")"})

\* regex.search(line)
Search(rx, line) ==
    \E k \in 0..(Len(line) - Len(rx)) : SubSeq(line, k + 1, k + Len(rx)) = rx

Whitespace == {" ", "\n", "\t"}

\* line.strip()
RECURSIVE LStrip(_)
LStrip(line) ==
    IF line # <<>> /\ Head(line) \in Whitespace THEN LStrip(Tail(line)) ELSE line

Strip(line) == Reverse(LStrip(Reverse(LStrip(line))))

(***************************************************************************)
(* The file tree.                                                          *)
(***************************************************************************)
HitLine == <<" ", "error", " ", "crash", "\n">>
MissLine == <<"ok", "\n">>

\* line i of a file: "all" files match everywhere, "alt" on odd lines, "none" nowhere
LineAt(f, i) ==
    IF f.kind = "all" \/ (f.kind = "alt" /\ i % 2 = 1) THEN HitLine ELSE MissLine

\* bytes of a token in UTF-8
TokenBytes(t) ==
    CASE t = "error" -> 5
      [] t = "crash" -> 5
      [] t = "ok" -> 2
      [] OTHER -> 1

RECURSIVE LineBytes(_)
LineBytes(line) ==
    IF line = <<>> THEN 0 ELSE TokenBytes(Head(line)) + LineBytes(Tail(line))

\* bytes of the first m lines of a file
Offset(f, m) ==
    LET hits == IF f.kind = "all" THEN m ELSE IF f.kind = "alt" THEN (m + 1) \div 2 ELSE 0
    IN  hits * LineBytes(HitLine) + (m - hits) * LineBytes(MissLine)

\* the number of lines iterating the file yields before it ends or raises
\* UnicodeDecodeError.  Line badline of the file starts with bytes that cannot be
\* decoded: "invalid", a byte that is no UTF-8 byte (ff); "partial", the first
\* two bytes of a three-byte character followed by the line's text (e2 82 ...);
\* "cut", the same two bytes ending the file.  The file is decoded CHUNK_SIZE
\* bytes at a time and the read of a chunk raises when the chunk holds the byte
\* that settles the error: the invalid byte itself, or the byte after the two of
\* the unfinished character (these two alone at the end of a chunk are kept
\* pending).  The lines that end in the chunks before it are yielded.  A cut file
\* raises at the read that meets the end of the file, after all its lines.
Decodable(f) ==
    IF f.badline = 0 THEN f.n
    ELSE IF f.bad = "cut" THEN f.badline - 1
    ELSE LET settled == Offset(f, f.badline - 1) + (IF f.bad = "partial" THEN 2 ELSE 0)
             decoded == (settled \div CHUNK_SIZE) * CHUNK_SIZE
         IN  Cardinality({m \in 1..(f.badline - 1) : Offset(f, m) <= decoded})

\* the path leads somewhere: a dangling symbolic link does not
Exists(p) == p \in DOMAIN fs /\ fs[p].type # "dangling"
\* os.path.isfile
IsFile(p) == Exists(p) /\ fs[p].type = "file"
IsDir(p) == Exists(p) /\ fs[p].type = "dir"
\* os.scandir / os.listdir succeed
Listable(p) == IsDir(p) /\ fs[p].listable

Join(d, name) == Append(d, name)

(***************************************************************************)
(* The file trees and requests a behaviour starts from.                    *)
(***************************************************************************)
Dir(entries, listable) == [type |-> "dir", entries |-> entries, listable |-> listable]

\* a text file of n lines; those that cannot be decoded at line badline hold bytes
\* of the sort `bad`
BadFile(n, kind, badline, bad) ==
    [type |-> "file", n |-> n, kind |-> kind, readable |-> TRUE, badline |-> badline,
     bad |-> bad]

\* a text file of n lines, with an invalid byte at line badline unless that is 0
TextFile(n, kind, readable, badline) ==
    [type |-> "file", n |-> n, kind |-> kind, readable |-> readable, badline |-> badline,
     bad |-> IF badline = 0 THEN "none" ELSE "invalid"]

\* the first line whose bytes end beyond the first chunk of a file of matching lines
BoundaryLine == (CHUNK_SIZE \div LineBytes(HitLine)) + 1

\* a symbolic link whose target does not exist
Dangling == [type |-> "dangling"]

S(rel) == session_root \o rel

\* the names of the session root's entries, in one scandir order
RootEntries ==
    << <<"a", "txt">>, <<"image", "PNG">>, <<"sub">>, <<"node_modules">>,
       <<"locked">>, <<"dangling", "txt">>, <<"z", "txt">> >>

\* the tree below the session root; a.txt and z.txt vary, as does the order in
\* which the session root lists its entries
Tree(a, z, entries) ==
    (S(<<>>) :> Dir(entries, TRUE))
    @@ (S(<< <<"a", "txt">> >>) :> a)
    @@ (S(<< <<"z", "txt">> >>) :> z)
    @@ (S(<< <<"dangling", "txt">> >>) :> Dangling)
    @@ (S(<< <<"image", "PNG">> >>) :> TextFile(1, "all", TRUE, 0))
    @@ (S(<< <<"sub">> >>) :> Dir(<< <<"build">>, <<"b", "log">> >>, TRUE))
    @@ (S(<< <<"sub">>, <<"b", "log">> >>) :> TextFile(2, "alt", TRUE, 0))
    @@ (S(<< <<"sub">>, <<"build">> >>) :> Dir(<< <<"out", "txt">> >>, TRUE))
    @@ (S(<< <<"sub">>, <<"build">>, <<"out", "txt">> >>) :> TextFile(1, "all", TRUE, 0))
    @@ (S(<< <<"node_modules">> >>) :> Dir(<< <<"bad", "py">>, <<"pkg">> >>, TRUE))
    @@ (S(<< <<"node_modules">>, <<"bad", "py">> >>) :> TextFile(1, "all", TRUE, 0))
    @@ (S(<< <<"node_modules">>, <<"pkg">> >>) :> Dir(<< <<"deep", "txt">> >>, TRUE))
    @@ (S(<< <<"node_modules">>, <<"pkg">>, <<"deep", "txt">> >>) :> TextFile(1, "all", TRUE, 0))
    @@ (S(<< <<"locked">> >>) :> Dir(<< <<"secret", "txt">> >>, FALSE))
    @@ (S(<< <<"locked">>, <<"secret", "txt">> >>) :> TextFile(1, "all", TRUE, 0))

\* small text files: every length, content shape and read failure
SmallFiles ==
    { TextFile(n, k, TRUE, 0) : n \in 1..MaxSmallLines, k \in {"all", "alt", "none"} }
    \cup { TextFile(0, "none", TRUE, 0), TextFile(1, "all", FALSE, 0) }
    \cup { f \in { BadFile(n, k, b, bad) :
                      n \in 1..MaxSmallLines, k \in {"all", "alt", "none"},
                      b \in 1..MaxSmallLines, bad \in {"invalid", "partial", "cut"} } :
                /\ f.badline <= f.n
                /\ f.bad = "cut" => f.badline = f.n }

\* large text files: as many matching lines as the cap, give or take CapMargin;
\* one whose line MAX_MATCHES cannot be decoded, and one with an unfinished
\* character in the last two bytes of its first chunk
LargeFiles ==
    { TextFile(n, "all", TRUE, 0) :
        n \in (MAX_MATCHES - CapMargin)..(MAX_MATCHES + CapMargin) }
    \cup { BadFile(MAX_MATCHES + CapMargin, "all", MAX_MATCHES, "invalid"),
           BadFile(MAX_MATCHES + CapMargin, "all", BoundaryLine, "partial") }

SmallTrees ==
    { Tree(a, z, e) :
        a \in SmallFiles,
        z \in {TextFile(1, "all", TRUE, 0), TextFile(1, "all", FALSE, 0)},
        e \in {RootEntries, Reverse(RootEntries)} }

LargeTrees ==
    { Tree(a, z, e) :
        a \in LargeFiles,
        z \in {TextFile(2, "all", TRUE, 0), BadFile(2, "all", 2, "cut")},
        e \in {RootEntries, Reverse(RootEntries)} }

Patterns ==
    { <<"error">>, <<"(", "error", ")">>, <<"(", "error">>, <<"error", ")">> }

Paths ==
    { <<>>, << <<"sub">> >>, << <<"a", "txt">> >>, << <<"z", "txt">> >>,
      << <<"image", "PNG">> >>, << <<"node_modules">> >>,
      << <<"node_modules">>, <<"bad", "py">> >>, << <<"locked">> >>,
      << <<"dangling", "txt">> >>,
      << <<"missing">> >> }

\* get_secure_path: the absolute path of the logical path, confined to the session
get_secure_path(p) == session_root \o p

\* exceptions get_secure_path may raise
ResolverErrors == {"FileNotFoundError", "PermissionError", "ValueError"}

Init ==
    /\ \/ fs \in SmallTrees /\ pattern \in Patterns
       \/ fs \in LargeTrees /\ pattern = <<"error">>
    /\ path \in Paths
    /\ recursive \in BOOLEAN
    /\ pc = "compile"
    /\ regex = <<>>
    /\ secure_path = <<>>
    /\ matches = <<>>
    /\ full_path = <<>>
    /\ line_i = 0
    /\ stack = <<>>
    /\ root = <<>>
    /\ dirs = <<>>
    /\ filenames = <<>>
    /\ items = <<>>
    /\ idx = 0
    /\ result = [pending |-> TRUE]
    /\ io = <<>>
    /\ resolver_calls = 0

(***************************************************************************)
(* grep_search.                                                            *)
(***************************************************************************)
request == <<path, pattern, recursive, fs>>
walk_vars == <<stack, root, dirs, filenames>>
file_vars == <<full_path, line_i>>

IoCall(op, p) == [op |-> op, path |-> p]

\* the classes an exception class derives from
Bases(exc) ==
    CASE exc \in {"FileNotFoundError", "PermissionError", "IsADirectoryError",
                  "NotADirectoryError"} -> {"OSError", "Exception"}
      [] exc = "UnicodeDecodeError" -> {"UnicodeError", "ValueError", "Exception"}
      [] exc \in {"OSError", "ValueError"} -> {"Exception"}
      [] OTHER -> {}

\* an except clause naming class cls catches exc
IsInstance(exc, cls) == exc = cls \/ cls \in Bases(exc)

\* the except clauses of grep_search, in their order
ErrorEnvelope(exc) ==
    IF IsInstance(exc, "FileNotFoundError")
    THEN [error |-> <<"Directory or file not found: ", path>>]
    ELSE IF IsInstance(exc, "PermissionError")
    THEN [error |-> <<"Permission denied accessing: ", path>>]
    ELSE [error |-> <<"Failed to perform grep search: ", exc>>]

\* re.compile(pattern) raises: the error envelope is returned at once
CompileError ==
    /\ pc = "compile"
    /\ CompileFails(pattern)
    /\ result' = [error |-> <<"Invalid regex pattern: ", CompileMsg(pattern)>>]
    /\ pc' = "done"
    /\ UNCHANGED <<request, regex, secure_path, matches, file_vars, walk_vars, items,
                   idx, io, resolver_calls>>

CompileOk ==
    /\ pc = "compile"
    /\ ~CompileFails(pattern)
    /\ regex' = Compile(pattern)
    /\ pc' = "resolve"
    /\ UNCHANGED <<request, secure_path, matches, file_vars, walk_vars, items, idx,
                   result, io, resolver_calls>>

\* get_secure_path returns the path confined to the session root
ResolveOk ==
    /\ pc = "resolve"
    /\ resolver_calls' = resolver_calls + 1
    /\ secure_path' = get_secure_path(path)
    /\ pc' = "search"
    /\ UNCHANGED <<request, regex, matches, file_vars, walk_vars, items, idx, result, io>>

\* get_secure_path raises
ResolveRaises ==
    /\ pc = "resolve"
    /\ resolver_calls' = resolver_calls + 1
    /\ \E exc \in ResolverErrors : result' = ErrorEnvelope(exc)
    /\ pc' = "done"
    /\ UNCHANGED <<request, regex, secure_path, matches, file_vars, walk_vars, items,
                   idx, io>>

\* which branch of the search logic runs
Mode ==
    IF IsFile(secure_path) THEN "file" ELSE IF recursive THEN "walk" ELSE "listdir"

\* if os.path.isfile(secure_path): process_file(secure_path)
SearchFile ==
    /\ pc = "search"
    /\ IsFile(secure_path)
    /\ io' = Append(io, IoCall("isfile", secure_path))
    /\ full_path' = secure_path
    /\ pc' = "process_file"
    /\ UNCHANGED <<request, regex, secure_path, matches, line_i, walk_vars, items, idx,
                   result, resolver_calls>>

\* elif recursive: os.walk(secure_path) is created; nothing is listed before next()
SearchWalk ==
    /\ pc = "search"
    /\ ~IsFile(secure_path)
    /\ recursive
    /\ io' = Append(io, IoCall("isfile", secure_path))
    /\ stack' = <<secure_path>>
    /\ pc' = "walk"
    /\ UNCHANGED <<request, regex, secure_path, matches, file_vars, root, dirs,
                   filenames, items, idx, result, resolver_calls>>

\* else: os.listdir(secure_path), which raises when the target is missing or
\* cannot be listed
SearchListdir ==
    /\ pc = "search"
    /\ ~IsFile(secure_path)
    /\ ~recursive
    /\ io' = io \o <<IoCall("isfile", secure_path), IoCall("listdir", secure_path)>>
    /\ IF ~Exists(secure_path)
       THEN /\ result' = ErrorEnvelope("FileNotFoundError")
            /\ pc' = "done"
            /\ UNCHANGED <<items, idx>>
       ELSE IF ~Listable(secure_path)
       THEN /\ result' = ErrorEnvelope("PermissionError")
            /\ pc' = "done"
            /\ UNCHANGED <<items, idx>>
       ELSE /\ items' = fs[secure_path].entries
            /\ idx' = 1
            /\ pc' = "items"
            /\ UNCHANGED result
    /\ UNCHANGED <<request, regex, secure_path, matches, file_vars, walk_vars,
                   resolver_calls>>

\* where process_file's caller goes on once it has returned ret ("None" or "STOP")
Return(ret) ==
    CASE Mode = "file" ->
            \* the return value is ignored
            pc' = "assemble" /\ UNCHANGED idx
      [] Mode = "walk" ->
            IF ret = "STOP"
            THEN pc' = "walk" /\ UNCHANGED idx             \* break out of the filenames
            ELSE pc' = "files" /\ idx' = idx + 1
      [] OTHER ->
            IF ret = "STOP"
            THEN pc' = "assemble" /\ UNCHANGED idx         \* break out of the items
            ELSE pc' = "items" /\ idx' = idx + 1

\* the cap test of the line loop, off by one
ScanCapOffByOne == Len(matches) > MAX_MATCHES

\* len(matches) >= MAX_MATCHES, as tested inside the line loop of process_file
ScanCapReached == Len(matches) >= MAX_MATCHES

\* len(matches) >= MAX_MATCHES, as tested at the head of the two loops over os.walk
WalkCapReached == Len(matches) >= MAX_MATCHES

\* the cap test of the result, off by one
WarnCapOffByOne == Len(matches) > MAX_MATCHES

\* len(matches) >= MAX_MATCHES, as tested when the result is built
WarnCapReached == Len(matches) >= MAX_MATCHES

\* an except clause that names PermissionError alone
CaughtPermissionOnly(exc) == IsInstance(exc, "PermissionError")

\* except (UnicodeDecodeError, PermissionError, OSError) of process_file
Caught(exc) ==
    \E cls \in {"UnicodeDecodeError", "PermissionError", "OSError"} : IsInstance(exc, cls)

\* an exception raised inside the try of process_file: passed over when the except
\* clause names it, otherwise it reaches the except clauses of grep_search
Raise(exc) ==
    IF Caught(exc)
    THEN Return("None") /\ UNCHANGED result
    ELSE result' = ErrorEnvelope(exc) /\ pc' = "done" /\ UNCHANGED idx

\* process_file up to the with statement: extension check, display path, open
ProcessFile ==
    /\ pc = "process_file"
    /\ IF IsBinaryExt(full_path)
       THEN /\ Return("None")
            /\ UNCHANGED <<io, line_i, result>>
       ELSE /\ io' = Append(io, IoCall("open", full_path))
            /\ IF fs[full_path].type = "dangling"
               THEN Raise("FileNotFoundError") /\ UNCHANGED line_i
               ELSE IF ~fs[full_path].readable
               THEN Raise("PermissionError") /\ UNCHANGED line_i
               ELSE pc' = "scan" /\ line_i' = 1 /\ UNCHANGED <<idx, result>>
    /\ UNCHANGED <<request, regex, secure_path, matches, full_path, walk_vars, items,
                   resolver_calls>>

\* the match record appended for line i
MatchRecord(p, i, line) ==
    [file |-> DisplayPath(p), line_number |-> i, line_content |-> Strip(line)]

\* one turn of the line loop of process_file: read line i (the file ends, the
\* read raises, or the line is yielded), test the cap, search
ReadLine ==
    /\ pc = "scan"
    /\ LET f == fs[full_path]
           line == LineAt(f, line_i)
       IN  IF line_i > Decodable(f)
           THEN IF f.badline = 0
                THEN Return("None") /\ UNCHANGED <<matches, line_i, result>>
                ELSE Raise("UnicodeDecodeError") /\ UNCHANGED <<matches, line_i>>
           ELSE IF ScanCapReached
           THEN Return("STOP") /\ UNCHANGED <<matches, line_i, result>>
           ELSE /\ matches' = IF Search(regex, line)
                              THEN Append(matches, MatchRecord(full_path, line_i, line))
                              ELSE matches
                /\ line_i' = line_i + 1
                /\ UNCHANGED <<pc, idx, result>>
    /\ UNCHANGED <<request, regex, secure_path, full_path, walk_vars, items, io,
                   resolver_calls>>

\* one turn of the loop over os.listdir(secure_path)
ForItem ==
    /\ pc = "items"
    /\ IF idx > Len(items)
       THEN pc' = "assemble" /\ UNCHANGED <<idx, full_path, io>>
       ELSE LET p == Join(secure_path, items[idx])
            IN  /\ io' = Append(io, IoCall("isfile", p))
                /\ IF IsFile(p)
                   THEN full_path' = p /\ pc' = "process_file" /\ UNCHANGED idx
                   ELSE idx' = idx + 1 /\ UNCHANGED <<pc, full_path>>
    /\ UNCHANGED <<request, regex, secure_path, matches, line_i, walk_vars, items, result,
                   resolver_calls>>

\* os.walk pops directories until one can be listed; those it cannot list are
\* passed over (onerror is None)
RECURSIVE WalkPop(_, _)
WalkPop(stk, log) ==
    IF stk = <<>> THEN [stop |-> TRUE, stack |-> <<>>, io |-> log]
    ELSE LET top == Last(stk)
             log2 == Append(log, IoCall("scandir", top))
         IN  IF Listable(top)
             THEN [stop |-> FALSE, top |-> top, stack |-> Front(stk), io |-> log2]
             ELSE WalkPop(Front(stk), log2)

\* next() of os.walk: the sub-directories left in dirs are pushed, the next
\* directory is listed and yielded
WalkNext ==
    /\ pc = "walk"
    /\ LET pushed == stack \o Reverse([k \in 1..Len(dirs) |-> Join(root, dirs[k])])
           w == WalkPop(pushed, io)
       IN  /\ io' = w.io
           /\ stack' = w.stack
           /\ IF w.stop
              THEN pc' = "assemble" /\ UNCHANGED <<root, dirs, filenames>>
              ELSE LET es == fs[w.top].entries
                   IN  /\ root' = w.top
                       /\ dirs' = SelectSeq(es, LAMBDA e : IsDir(Join(w.top, e)))
                       /\ filenames' = SelectSeq(es, LAMBDA e : ~IsDir(Join(w.top, e)))
                       /\ pc' = "loop_head"
    /\ UNCHANGED <<request, regex, secure_path, matches, file_vars, items, idx, result,
                   resolver_calls>>

\* no pruning: every sub-directory is kept
NoPrune(ds) == ds

\* dirs[:] = [d for d in dirs if d not in IGNORED_DIRS]
Prune(ds) == SelectSeq(ds, LAMBDA d : d \notin IGNORED_DIRS)

\* head of the body of the loop over os.walk: cap test, then pruning
LoopHead ==
    /\ pc = "loop_head"
    /\ IF WalkCapReached
       THEN pc' = "assemble" /\ UNCHANGED <<dirs, idx>>
       ELSE dirs' = Prune(dirs) /\ idx' = 1 /\ pc' = "files"
    /\ UNCHANGED <<request, regex, secure_path, matches, file_vars, stack, root,
                   filenames, items, result, io, resolver_calls>>

\* one turn of the loop over filenames
ForFilename ==
    /\ pc = "files"
    /\ IF idx > Len(filenames) \/ WalkCapReached
       THEN pc' = "walk" /\ UNCHANGED full_path
       ELSE full_path' = Join(root, filenames[idx]) /\ pc' = "process_file"
    /\ UNCHANGED <<request, regex, secure_path, matches, line_i, walk_vars, items, idx,
                   result, io, resolver_calls>>

Warning == <<"Stopped early after reaching MAX_MATCHES=", MAX_MATCHES>>

\* the success envelope
Assemble ==
    /\ pc = "assemble"
    /\ LET r == [success |-> TRUE, pattern |-> pattern, path |-> path,
                 recursive |-> recursive, matches |-> matches,
                 total_matches |-> Len(matches)]
       IN  result' = IF WarnCapReached THEN r @@ [warning |-> Warning] ELSE r
    /\ pc' = "done"
    /\ UNCHANGED <<request, regex, secure_path, matches, file_vars, walk_vars, items, idx,
                   io, resolver_calls>>

Next ==
    \/ CompileError
    \/ CompileOk
    \/ ResolveOk
    \/ ResolveRaises
    \/ SearchFile
    \/ SearchWalk
    \/ SearchListdir
    \/ ProcessFile
    \/ ReadLine
    \/ ForItem
    \/ WalkNext
    \/ LoopHead
    \/ ForFilename
    \/ Assemble

Spec == Init /\ [][Next]_vars

(***************************************************************************)
(* Reference definitions the properties are stated with.  They describe    *)
(* the request's outcome from the file tree alone, without the steps of    *)
(* grep_search.                                                            *)
(***************************************************************************)
Min(a, b) == IF a <= b THEN a ELSE b

RECURSIVE Flatten(_)
Flatten(ss) == IF ss = <<>> THEN <<>> ELSE Head(ss) \o Flatten(Tail(ss))

Done == pc = "done"
IsSuccess == Done /\ "success" \in DOMAIN result
IsError == Done /\ DOMAIN result = {"error"}

\* the pattern does not compile
Malformed == GroupDepth(pattern, 0) # 0

\* the resolved search target
Target == session_root \o path

\* the extension of the file, lower-cased, is one of the binary extensions
HasBinaryExt(p) == Lower(SplitExt(p)) \in BINARY_EXTENSIONS

\* the files below directory d in the order the pruned walk meets them
RECURSIVE WalkOrder(_)
WalkOrder(d) ==
    IF ~Listable(d) THEN <<>>
    ELSE LET es == fs[d].entries
             files == SelectSeq(es, LAMBDA e : ~IsDir(Join(d, e)))
             subs == SelectSeq(es, LAMBDA e : IsDir(Join(d, e)) /\ e \notin IGNORED_DIRS)
         IN  [k \in 1..Len(files) |-> Join(d, files[k])]
             \o Flatten([k \in 1..Len(subs) |-> WalkOrder(Join(d, subs[k]))])

\* the candidate files of the request, in discovery order
Candidates ==
    IF IsFile(Target) THEN <<Target>>
    ELSE IF recursive THEN WalkOrder(Target)
    ELSE IF ~Listable(Target) THEN <<>>
    ELSE LET es == SelectSeq(fs[Target].entries, LAMBDA e : IsFile(Join(Target, e)))
         IN  [k \in 1..Len(es) |-> Join(Target, es[k])]

\* the number of lines of file p that can be read before a failure
Readable(p) ==
    IF fs[p].type = "dangling" \/ ~fs[p].readable THEN 0 ELSE Decodable(fs[p])

\* reading file p fails: at open, or on one of its lines
Fails(p) == fs[p].type = "dangling" \/ ~fs[p].readable \/ fs[p].badline > 0

\* the matching lines of file p, as records, were there no cap
HitsOf(p) ==
    IF HasBinaryExt(p) THEN <<>>
    ELSE LET hit == SelectSeq([i \in 1..Readable(p) |-> i],
                              LAMBDA i : Search(Compile(pattern), LineAt(fs[p], i)))
         IN  [k \in 1..Len(hit) |->
                 [file |-> RelPath(p, session_root), line_number |-> hit[k],
                  line_content |-> Strip(LineAt(fs[p], hit[k]))]]

\* every matching line of every candidate file, in discovery order
AllHits == Flatten([k \in 1..Len(Candidates) |-> HitsOf(Candidates[k])])

\* the calls of the log that list a directory or open a file
Accesses(log) == SelectSeq(log, LAMBDA e : e.op \in {"open", "scandir", "listdir"})

Opened == {io[k].path : k \in {j \in 1..Len(io) : io[j].op = "open"}}
Listed == {io[k].path : k \in {j \in 1..Len(io) : io[j].op \in {"scandir", "listdir"}}}

\* path p lies inside a directory with an ignored name, looking below the first
\* `from` names of p only
InIgnoredBelow(p, from) == \E k \in (from + 1)..(Len(p) - 1) : p[k] \in IGNORED_DIRS

(***************************************************************************)
(* Properties.                                                             *)
(***************************************************************************)

\* C1: the accumulated match sequence never holds more than MAX_MATCHES records,
\* in any state of the scan, and the success envelope's total_matches is the
\* length of its matches, at most MAX_MATCHES.
C1_MatchesNeverExceedCap ==
    /\ Len(matches) <= MAX_MATCHES
    /\ IsSuccess =>
          /\ result.total_matches = Len(result.matches)
          /\ result.total_matches <= MAX_MATCHES

\* C1 witness: a request whose files hold more matching lines than the cap has
\* returned, with total_matches at the cap.
C1_Witness ==
    /\ IsSuccess
    /\ result.total_matches = MAX_MATCHES
    /\ \E p \in DOMAIN fs : IsFile(p) /\ fs[p].n > MAX_MATCHES

\* C2: when the candidate files hold more than MAX_MATCHES matching lines, the
\* result is a success envelope with exactly MAX_MATCHES records, the first
\* MAX_MATCHES matching lines in discovery order, and a warning naming MAX_MATCHES.
C2_CapKeepsFirstMatches ==
    (Done /\ resolver_calls = 1 /\ secure_path = Target /\ Len(AllHits) > MAX_MATCHES) =>
        /\ IsSuccess
        /\ result.total_matches = MAX_MATCHES
        /\ result.matches = SubSeq(AllHits, 1, MAX_MATCHES)
        /\ "warning" \in DOMAIN result
        /\ result.warning = Warning

\* C2 witness: a directory search over more than MAX_MATCHES matching lines has
\* returned MAX_MATCHES records taken from two files.
C2_Witness ==
    /\ IsSuccess
    /\ Len(AllHits) > MAX_MATCHES
    /\ Len(result.matches) = MAX_MATCHES
    /\ result.matches[1].file # result.matches[MAX_MATCHES].file

\* C3 (as claimed): when the candidate files hold MAX_MATCHES matching lines or
\* fewer, so that the cap dropped nothing, the success envelope has no warning.
C3_NoWarningUnlessCut ==
    (IsSuccess /\ Len(AllHits) <= MAX_MATCHES) => "warning" \notin DOMAIN result

\* C4: a pattern that does not compile ends the request with an error envelope
\* carrying the compile message; get_secure_path is never called and nothing is
\* listed, opened or tested in the file tree.
C4_MalformedPatternNoAccess ==
    Malformed =>
        /\ resolver_calls = 0
        /\ io = <<>>
        /\ pc \in {"compile", "done"}
        /\ Done => /\ IsError
                   /\ result.error = <<"Invalid regex pattern: ", CompileMsg(pattern)>>

\* C4 witness: a request with a malformed pattern for an existing directory has
\* returned.
C4_Witness == Done /\ Malformed /\ IsDir(Target)

\* C5 (as claimed): in recursive mode no match comes from a file inside a
\* directory with an ignored name.
C5_NoMatchInsideIgnored ==
    recursive => \A k \in 1..Len(matches) : ~InIgnoredBelow(session_root \o matches[k].file, 0)

\* C5 (amended): in a recursive directory search, no directory with an ignored
\* name below the search target is ever listed, no file inside one is opened,
\* and no match comes from inside one.
C5_IgnoredBelowTargetPruned ==
    (recursive /\ secure_path = Target /\ ~IsFile(Target)) =>
        /\ \A d \in Listed : Last(d) \in IGNORED_DIRS => d = Target
        /\ \A d \in Listed : ~InIgnoredBelow(d, Len(Target))
        /\ \A p \in Opened : ~InIgnoredBelow(p, Len(Target))
        /\ \A k \in 1..Len(matches) :
              ~InIgnoredBelow(session_root \o matches[k].file, Len(Target))

\* C5 witness: a recursive search of the session root, which holds node_modules
\* and sub/build with matching files, has returned matches from sub.
C5_Witness ==
    /\ IsSuccess /\ recursive /\ path = <<>>
    /\ \E k \in 1..Len(result.matches) :
          result.matches[k].file = << <<"sub">>, <<"b", "log">> >>
    /\ Len(HitsOf(S(<< <<"node_modules">>, <<"bad", "py">> >>))) > 0
    /\ Len(HitsOf(S(<< <<"sub">>, <<"build">>, <<"out", "txt">> >>))) > 0

\* C6: in every mode, a file whose lower-cased extension is a binary extension is
\* never opened and never appears in matches.
C6_BinaryNeverOpened ==
    /\ \A p \in Opened : ~HasBinaryExt(p)
    /\ \A k \in 1..Len(matches) : ~HasBinaryExt(matches[k].file)

\* C6 witness: image.PNG, whose only line matches the pattern, was the target of a
\* single-file search or met by a directory search that has returned.
C6_Witness ==
    /\ IsSuccess
    /\ \E k \in 1..Len(Candidates) :
          /\ Candidates[k] = S(<< <<"image", "PNG">> >>)
          /\ Search(regex, LineAt(fs[Candidates[k]], 1))
    /\ Len(AllHits) <= MAX_MATCHES

\* C7 (as claimed): once MAX_MATCHES records are held, enumeration halts at once in
\* every directory mode: no further file is opened and no further directory is
\* listed.
C7_NoAccessAfterCap ==
    [][Len(matches) >= MAX_MATCHES => Accesses(io') = Accesses(io)]_vars

\* C8 (as claimed): when the resolved target does not exist or cannot be listed,
\* the request returns an error envelope, whatever the recursive flag.
C8_InaccessibleTargetIsError ==
    (Done /\ (~Exists(Target) \/ (IsDir(Target) /\ ~Listable(Target)))) => IsError

\* C9: when opening or reading a candidate file fails, the request still returns
\* a success envelope, and its matches are the matching lines of all candidate
\* files in discovery order (from the failing file, those read before the
\* failure), up to the cap.
C9_FileFailureIsSkipped ==
    (Done /\ \E p \in Opened : Fails(p)) =>
        /\ IsSuccess
        /\ \A k \in 1..Len(Candidates) :
              HasBinaryExt(Candidates[k]) \/ Len(matches) >= MAX_MATCHES
                 \/ Candidates[k] \in Opened
        /\ result.matches = SubSeq(AllHits, 1, Min(Len(AllHits), MAX_MATCHES))

\* C9 witness: a file failed, and a file opened after it contributed a match.
C9_Witness ==
    /\ IsSuccess
    /\ \E i, j \in 1..Len(io) :
          /\ i < j
          /\ io[i].op = "open" /\ Fails(io[i].path)
          /\ io[j].op = "open"
          /\ \E k \in 1..Len(result.matches) :
                session_root \o result.matches[k].file = io[j].path

\* C10 (as claimed): the display path of every appended match record is the path of
\* the file relative to the resolved search target.
C10_RelativeToSearchTarget ==
    [][Len(matches') > Len(matches) =>
          Last(matches').file = RelPath(full_path, secure_path)]_vars

\* C10 (amended): the display path of every appended match record is the path of
\* the file relative to the session root: the session root followed by the
\* display path is the file's absolute path.
C10_RelativeToSessionRoot ==
    [][Len(matches') > Len(matches) =>
          /\ session_root \o Last(matches').file = full_path
          /\ Last(matches').file = RelPath(full_path, session_root)]_vars

\* C10 witness: a match was recorded for a file in a search whose target is the
\* sub-directory sub, with the display path sub/b.log.
C10_Witness ==
    /\ path = << <<"sub">> >>
    /\ Len(matches) > 0
    /\ matches[1].file = << <<"sub">>, <<"b", "log">> >>

====
